---- MODULE Spec2Model ----
(***************************************************************************)
(* Model of the validation core of the Revitron UI enhancement framework:  *)
(*   - ValidationEngine (src/src/validation/validation_engine.py): the     *)
(*     100%-coverage orchestration loop, the three criterion validators    *)
(*     the class defines, and the report generator;                        *)
(*   - CapabilityMapper (src/src/research/api_capability_mapper.py): the   *)
(*     duplicate-detection database and check_for_duplicates.              *)
(*                                                                         *)
(* Scores are floats in the code.  Here a score is an integer number of    *)
(* 1/Scale units (Scale is a common multiple of every denominator the      *)
(* validators divide by), and a quotient that is reported as such          *)
(* (coverage, averages, similarities) is a record [num, den].              *)
(***************************************************************************)
EXTENDS Integers, Sequences, FiniteSets, Bags, TLC

VARIABLES
    \* ---- ValidationEngine fields (validation_engine.py:92-94)
    validation_results,   \* self.validation_results: list of ValidationResult
    coverage_tracker,     \* self.coverage_tracker: dict id -> set of criteria
    \* ---- the running validate_comprehensive_coverage call
    pc,                   \* position of the call: idle, phase1, phase2, returned, raised
    suggestions,          \* argument: list of suggestion dicts
    implementation_specs, \* argument: list of implementation spec dicts
    patched,              \* is _validate_single_criterion replaced by a test double
    stub_result,          \* the test double's return_value
    idx,                  \* loop variable i of enumerate(suggestions), 0-based
    crit,                 \* position in the ValidationCriteria iteration, 0 = not begun
    validations_completed,
    total_validations_required,
    report,               \* the value returned by the call, NoReport if none
    error,                \* the exception the call raised, NoError if none
    \* ---- bookkeeping about the last call (not program state)
    calls,                \* number of calls made on this engine
    call_start,           \* Len(validation_results) when the call was entered
    batch_ids,            \* the effective suggestion ids of the batch the call went through
    batch_size,           \* len(suggestions) of the call
    batch_specs,          \* len(implementation_specs) of the call
    \* ---- CapabilityMapper fields (api_capability_mapper.py:77-79)
    existing_functions,       \* self.existing_functions: list of ExistingFunction
    duplicate_detection_db,   \* self.duplicate_detection_db: insertion-ordered dict
    database_built,       \* history: _build_duplicate_detection_database has assigned the dict
    \* ---- the last check_for_duplicates call
    mpc,                  \* last mapper operation: init, mapped, checked
    suggestion_name,      \* argument
    suggestion_description, \* argument
    unique_duplicates,    \* return value: list of entities (indices into existing_functions)
    \* ---- one application of the scoring functions
    spc,                  \* idle, ready, compared, validated
    text_a,                \* arguments of the similarity functions
    text_b,
    similarity,           \* their values on (text_a, text_b)
    reversed,             \* their values on (text_b, text_a)
    candidate,            \* arguments of _validate_single_criterion
    candidate_spec,
    criterion,
    criterion_result,     \* its value: a ValidationResult, or the exception raised
    assigned_db,          \* the list assigned to engine.existing_functions_db, <<>> if none
    \* ---- ButtonGenerator fields (button_generator.py:92-93)
    generated_suggestions, \* self.generated_suggestions
    duplicate_tracker,    \* self.duplicate_tracker: set of normalized names
    \* ---- the running generate_validated_suggestions call
    gpc,                  \* idle, generating, returned, raised, checked
    target_count,         \* argument
    category_targets,     \* targets in ButtonCategory order
    category_index,       \* position in the iteration over category_targets
    category_suggestions, \* len(category_suggestions)
    category_attempts,
    generated,            \* the local list suggestions
    validate_patched,     \* is _validate_suggestion_real_time replaced by Mock(return_value=True)
    single_patched,       \* is _generate_single_suggestion replaced by one that returns
    generation_error,     \* the exception the call raised, NoError if none
    generations,          \* number of calls made on this generator
    rejections,           \* suggestions the real-time validation rejected in this call
    \* ---- the last check_duplicates_against_existing call
    checked_suggestions,  \* argument
    checked_existing,     \* argument
    duplicate_result,      \* its value: the count returned, or the exception raised
    accepted_suggestions, \* bag of the suggestions _validate_suggestion_real_time returned True for
    \* ---- RevitronEnhancementFramework (main_controller.py:66-69)
    research_completeness_threshold, \* self.config.research_completeness_threshold
    quality_gates_passed, \* self.quality_gates_passed: dict gate name -> bool
    \* ---- the running execute_comprehensive_enhancement_pipeline call
    ppc,                  \* idle, research, research_gate, capability_mapping, aborted
    research_results,     \* local research_results, NoData before it is assigned
    capability_data,      \* what map_existing_functionality returned, NoData if nothing
    phases_started,       \* the phases this run has entered, in order
    pipeline_error,       \* the exception the run raised, NoError if none
    runs                  \* number of pipeline runs of this framework

engineVars == <<validation_results, coverage_tracker, pc, suggestions,
                implementation_specs, patched, stub_result, idx, crit,
                validations_completed, total_validations_required, report,
                error, calls, call_start, batch_ids, batch_size, batch_specs>>
mapperVars == <<existing_functions, duplicate_detection_db, database_built, mpc,
                suggestion_name, suggestion_description, unique_duplicates>>
scoringVars == <<spc, text_a, text_b, similarity, reversed, candidate, candidate_spec,
                 criterion, criterion_result, assigned_db>>
generatorVars == <<generated_suggestions, duplicate_tracker, gpc, target_count,
                   category_targets, category_index, category_suggestions,
                   category_attempts, generated, validate_patched, single_patched,
                   generation_error, generations, rejections, checked_suggestions,
                   checked_existing, duplicate_result, accepted_suggestions>>
pipelineVars == <<research_completeness_threshold, quality_gates_passed, ppc,
                  research_results, capability_data, phases_started, pipeline_error, runs>>
vars == <<engineVars, mapperVars, scoringVars, generatorVars, pipelineVars>>

outsideEngine == <<mapperVars, scoringVars, generatorVars, pipelineVars>>
outsideMapper == <<engineVars, scoringVars, generatorVars, pipelineVars>>
outsideScoring == <<engineVars, mapperVars, generatorVars, pipelineVars>>
outsideGenerator == <<engineVars, mapperVars, scoringVars, pipelineVars>>
outsidePipeline == <<engineVars, mapperVars, scoringVars, generatorVars>>

-----------------------------------------------------------------------------
(* Bounds of the model *)

MaxBatch == 2       \* longest suggestion / spec list passed to one call
MaxCalls == 2       \* calls made on one engine
MaxFunctions == 2   \* entities mapped by one CapabilityMapper
MaxTarget == 6      \* largest target_count of a generation
MaxGenerations == 1 \* generate_validated_suggestions calls on one generator
MaxChecked == 2     \* longest list passed to check_duplicates_against_existing
MaxValidatedTarget == 3 \* largest target_count of a generator that is also called directly
MaxRuns == 3        \* pipeline runs of one framework

Scale == 400 * 9    \* score unit: 1.0 is Scale

-----------------------------------------------------------------------------
(* Python str and dict operations *)

Char(s, i) == SubSeq(s, i, i)

\* the characters str.lower() changes (ASCII)
LowerOf ==
    [ A |-> "a", B |-> "b", C |-> "c", D |-> "d", E |-> "e", F |-> "f", G |-> "g",
      H |-> "h", I |-> "i", J |-> "j", K |-> "k", L |-> "l", M |-> "m", N |-> "n",
      O |-> "o", P |-> "p", Q |-> "q", R |-> "r", S |-> "s", T |-> "t", U |-> "u",
      V |-> "v", W |-> "w", X |-> "x", Y |-> "y", Z |-> "z" ]

LowerChar(c) == IF c \in DOMAIN LowerOf THEN LowerOf[c] ELSE c

\* str.lower(), character by character
Lower(s) ==
    LET lowered[lo \in 1..(Len(s) + 1), hi \in 0..Len(s)] ==
            IF lo > hi THEN ""
            ELSE IF lo = hi THEN LowerChar(Char(s, lo))
            ELSE lowered[lo, (lo + hi) \div 2] \o lowered[(lo + hi) \div 2 + 1, hi]
    IN  lowered[1, Len(s)]

\* str.replace(old, new) for a one-character old
Replace(s, old, new) ==
    LET replaced[lo \in 1..(Len(s) + 1), hi \in 0..Len(s)] ==
            IF lo > hi THEN ""
            ELSE IF lo = hi THEN (IF Char(s, lo) = old THEN new ELSE Char(s, lo))
            ELSE replaced[lo, (lo + hi) \div 2] \o replaced[(lo + hi) \div 2 + 1, hi]
    IN  replaced[1, Len(s)]

\* the Python test "k in s" on strings
Contains(k, s) ==
    \E needle \in { k }, text \in { s } :
        \E i \in 1..(Len(text) + 1) :
            /\ i + Len(needle) - 1 <= Len(text)
            /\ SubSeq(text, i, i + Len(needle) - 1) = needle

\* the characters str.split() separates words at
IsSpace(c) == c \in { " ", "\t", "\n", "\r", "\f" }

\* set(s.split()): the maximal runs of non-blank characters
Split(s) ==
    LET starts == { i \in 1..Len(s) :
                      ~IsSpace(Char(s, i)) /\ (i = 1 \/ IsSpace(Char(s, i - 1))) }
        ends   == { j \in 1..Len(s) :
                      ~IsSpace(Char(s, j)) /\ (j = Len(s) \/ IsSpace(Char(s, j + 1))) }
        endOf(i) == CHOOSE j \in ends : j >= i /\ \A m \in ends : m >= i => j <= m
    IN  { SubSeq(s, i, endOf(i)) : i \in starts }

\* dict.get(k, default)
Get(d, k, default) == IF k \in DOMAIN d THEN d[k] ELSE default

Min(a, b) == IF a <= b THEN a ELSE b
Max(a, b) == IF a >= b THEN a ELSE b

Ratio(n, d) == [num |-> n, den |-> d]


-----------------------------------------------------------------------------
(* ValidationEngine: enums and thresholds *)

PASSED == "passed"
FAILED == "failed"
REQUIRES_REVIEW == "requires_review"

\* ValidationCriteria with duplicate_check defined first
ValidationCriteriaDuplicateFirst ==
    << "duplicate_check", "technical_feasibility", "aec_value",
       "implementation_complexity", "api_compatibility", "innovation_score",
       "resource_requirements" >>

\* class ValidationCriteria, in definition (= iteration) order
ValidationCriteria ==
    << "technical_feasibility", "duplicate_check", "aec_value",
       "implementation_complexity", "api_compatibility", "innovation_score",
       "resource_requirements" >>

CriteriaSet == { ValidationCriteria[n] : n \in DOMAIN ValidationCriteria }

\* self.minimum_thresholds, in 1/Scale units
minimum_thresholds ==
    [ technical_feasibility     |-> (8 * Scale) \div 10,
      duplicate_check           |-> Scale,
      aec_value                 |-> (7 * Scale) \div 10,
      implementation_complexity |-> (6 * Scale) \div 10,
      api_compatibility         |-> (9 * Scale) \div 10,
      innovation_score          |-> (5 * Scale) \div 10,
      resource_requirements     |-> (7 * Scale) \div 10 ]

\* ValidationResult(...); details and recommendations are message text and
\* are left out
ValidationResult(sid, criteria, status, score, blocking) ==
    [ suggestion_id |-> sid, criteria |-> criteria, status |-> status,
      score |-> score, blocking_issues |-> blocking ]

\* the outcome of a call that raised instead of returning
Raised(exc) == [ raised |-> exc ]
IsRaised(r) == "raised" \in DOMAIN r

-----------------------------------------------------------------------------
(* ValidationEngine: text similarity and the criterion validators *)

\* CalculateTextSimilarity dividing by the number of words of text1
CalculateTextSimilarityOverFirst(text1, text2) ==
    LET words1 == Split(Lower(text1))
        words2 == Split(Lower(text2))
    IN  IF words1 = {} \/ words2 = {}
        THEN Ratio(0, 1)
        ELSE Ratio(Cardinality(words1 \cap words2), Cardinality(words1))

\* _calculate_text_similarity: Jaccard index of the two word sets
CalculateTextSimilarity(text1, text2) ==
    LET words1 == Split(Lower(text1))
        words2 == Split(Lower(text2))
    IN  IF words1 = {} \/ words2 = {}
        THEN Ratio(0, 1)
        ELSE Ratio(Cardinality(words1 \cap words2), Cardinality(words1 \cup words2))

\* a quotient as a score in 1/Scale units
ToScore(r) == (r.num * Scale) \div r.den

\* _validate_technical_feasibility
ValidateTechnicalFeasibility(suggestion, spec, sid) ==
    LET api_dependencies      == Len(Get(spec, "api_requirements", <<>>))
        external_dependencies == Len(Get(spec, "external_dependencies", <<>>))
        compatibility_score   == Get(spec, "revit_compatibility_score", 0)
        implementation_effort == Get(spec, "effort_estimate", 0)
        api_score        == Min(Scale, ((10 - api_dependencies) * Scale) \div 10)
        dependency_score == Min(Scale, ((5 - external_dependencies) * Scale) \div 5)
        effort_score     == Min(Scale, ((100 - implementation_effort) * Scale) \div 100)
        overall_score    == (api_score + dependency_score + compatibility_score
                              + effort_score) \div 4
        status == IF overall_score >= minimum_thresholds["technical_feasibility"]
                  THEN PASSED ELSE FAILED
    IN  ValidationResult(sid, "technical_feasibility", status, overall_score, <<>>)

RECURSIVE MaxOf(_)
MaxOf(seq) == IF Len(seq) = 1 THEN seq[1] ELSE Max(seq[1], MaxOf(Tail(seq)))

\* ValidateDuplicateCheck reporting every compared function as a duplicate
ValidateDuplicateCheckBlocksAll(suggestion, sid, existing) ==
    LET name_ == Lower(Get(suggestion, "name", ""))
        desc_ == Lower(Get(suggestion, "description", ""))
        overall(f) ==
            (ToScore(CalculateTextSimilarity(name_, Lower(Get(f, "name", ""))))
              + ToScore(CalculateTextSimilarity(desc_, Lower(Get(f, "description", ""))))) \div 2
        similarity_scores == [ n \in DOMAIN existing |-> overall(existing[n]) ]
        max_similarity == IF Len(similarity_scores) > 0 THEN MaxOf(similarity_scores) ELSE 0
        score  == Max(0, Scale - max_similarity)
        status == IF score >= Scale THEN PASSED ELSE FAILED
    IN  ValidationResult(sid, "duplicate_check", status, score,
                         [ n \in DOMAIN existing |->
                             "Duplicate of: " \o Get(existing[n], "name", "Unknown") ])

\* _validate_duplicate_check against the list existing_functions
ValidateDuplicateCheck(suggestion, sid, existing) ==
    LET name_ == Lower(Get(suggestion, "name", ""))
        desc_ == Lower(Get(suggestion, "description", ""))
        overall(f) ==
            (ToScore(CalculateTextSimilarity(name_, Lower(Get(f, "name", ""))))
              + ToScore(CalculateTextSimilarity(desc_, Lower(Get(f, "description", ""))))) \div 2
        similarity_scores == [ n \in DOMAIN existing |-> overall(existing[n]) ]
        duplicates_found ==
            SelectSeq([ n \in DOMAIN existing |->
                          [ name |-> Get(existing[n], "name", "Unknown"),
                            sim  |-> similarity_scores[n] ] ],
                      LAMBDA d : d.sim > (8 * Scale) \div 10)
        max_similarity == IF Len(similarity_scores) > 0 THEN MaxOf(similarity_scores) ELSE 0
        score  == Max(0, Scale - max_similarity)
        status == IF score >= Scale THEN PASSED ELSE FAILED
    IN  ValidationResult(sid, "duplicate_check", status, score,
                         [ n \in DOMAIN duplicates_found |->
                             "Duplicate of: " \o duplicates_found[n].name ])

workflow_categories ==
    { "design_optimization", "documentation_automation", "quality_control",
      "coordination", "analysis", "compliance", "productivity" }
industry_keywords  == { "bim", "revit", "architectural", "engineering", "construction", "aec" }
problem_indicators == { "optimize", "automate", "improve", "enhance", "streamline", "coordinate" }

\* _validate_aec_value
ValidateAecValue(suggestion, sid) ==
    LET category    == Lower(Get(suggestion, "category", ""))
        description == Lower(Get(suggestion, "description", ""))
        matched_workflows ==
            { w \in workflow_categories :
                \/ Contains(Replace(w, "_", " "), description)
                \/ Contains(Replace(w, "_", " "), category) }
        \* each workflow match adds 0.2
        workflow_relevance == Cardinality(matched_workflows) * (Scale \div 5)
        keyword_relevance ==
            (Cardinality({ k \in industry_keywords : Contains(k, description) }) * Scale)
                \div Cardinality(industry_keywords)
        problem_solving_score ==
            (Cardinality({ p \in problem_indicators : Contains(p, description) }) * Scale)
                \div Cardinality(problem_indicators)
        overall_score ==
            Min(Scale, (workflow_relevance + keyword_relevance + problem_solving_score) \div 3)
        status == IF overall_score >= minimum_thresholds["aec_value"] THEN PASSED ELSE FAILED
    IN  ValidationResult(sid, "aec_value", status, overall_score, <<>>)

\* getattr(self, 'existing_functions_db', []): nothing sets the attribute
existing_functions_db == <<>>

\* The class defines _validate_technical_feasibility, _validate_duplicate_check
\* and _validate_aec_value only: the four other methods the dispatch names do
\* not exist, so evaluating self._validate_<criterion> raises AttributeError.
DefinedValidators == { "technical_feasibility", "duplicate_check", "aec_value" }

\* _validate_single_criterion
ValidateSingleCriterion(suggestion, spec, criteria, sid) ==
    CASE criteria = "technical_feasibility" ->
            ValidateTechnicalFeasibility(suggestion, spec, sid)
      [] criteria = "duplicate_check" ->
            ValidateDuplicateCheck(suggestion, sid, existing_functions_db)
      [] criteria = "aec_value" ->
            ValidateAecValue(suggestion, sid)
      [] criteria \in CriteriaSet \ DefinedValidators ->
            Raised("AttributeError")
      [] OTHER ->
            Raised("ValidationError")

\* what the loop's call self._validate_single_criterion(...) evaluates to:
\* the method, or the return_value of the Mock that patch.object put in its
\* place (tests/test_framework.py:207-213, 484-490)
CallValidateSingleCriterion(suggestion, spec, criteria, sid, isPatched, stub) ==
    IF isPatched THEN stub ELSE ValidateSingleCriterion(suggestion, spec, criteria, sid)

-----------------------------------------------------------------------------
(* ValidationEngine: coverage tracking and the report *)

NoReport == [ returned |-> FALSE ]
NoError  == [ type |-> "none" ]
NoStub   == [ configured |-> FALSE ]

EmptyTracker == [ x \in {} |-> {} ]

\* suggestion.get('id', f"suggestion_{i}")
SuggestionId(suggestion, i) == Get(suggestion, "id", "suggestion_" \o ToString(i))

\* self.coverage_tracker[suggestion_id] = set()
TrackerInit(tracker, sid) ==
    [ x \in (DOMAIN tracker) \cup {sid} |-> IF x = sid THEN {} ELSE tracker[x] ]

\* self.coverage_tracker[suggestion_id].add(criteria)
TrackerAdd(tracker, sid, criteria) ==
    [ tracker EXCEPT ![sid] = @ \cup {criteria} ]

\* _verify_coverage_completeness; its result is assigned to
\* coverage_verification and never read
VerifyCoverageCompleteness(tracker) ==
    [ total_suggestions       |-> Cardinality(DOMAIN tracker),
      complete_coverage_count |-> Cardinality({ x \in DOMAIN tracker : tracker[x] = CriteriaSet }),
      incomplete_suggestions  |-> { x \in DOMAIN tracker : tracker[x] # CriteriaSet } ]

RECURSIVE SumScores(_)
SumScores(results) ==
    IF Len(results) = 0 THEN 0 ELSE results[1].score + SumScores(Tail(results))

CountStatus(results, status) ==
    Cardinality({ n \in DOMAIN results : results[n].status = status })

RECURSIVE Flatten(_)
Flatten(seqs) == IF Len(seqs) = 0 THEN <<>> ELSE seqs[1] \o Flatten(Tail(seqs))

\* _generate_comprehensive_report over the engine's validation_results
GenerateComprehensiveReport(results, batch, completed, required) ==
    LET validation_coverage ==
            IF required > 0 THEN Ratio(completed, required) ELSE Ratio(0, 1)
        overall_quality_score ==
            IF Len(results) > 0 THEN Ratio(SumScores(results), Len(results)) ELSE Ratio(0, 1)
        ofCriteria(c) == SelectSeq(results, LAMBDA r : r.criteria = c)
        summary_metrics ==
            [ c \in { c \in CriteriaSet : Len(ofCriteria(c)) > 0 } |->
                Ratio(SumScores(ofCriteria(c)), Len(ofCriteria(c))) ]
        failedBlocking ==
            Flatten([ n \in DOMAIN results |->
                        IF results[n].status = FAILED THEN results[n].blocking_issues ELSE <<>> ])
    IN  [ returned              |-> TRUE,
          total_suggestions     |-> Len(batch),
          validation_coverage   |-> validation_coverage,
          overall_quality_score |-> overall_quality_score,
          passed_suggestions    |-> CountStatus(results, PASSED),
          failed_suggestions    |-> CountStatus(results, FAILED),
          requires_review       |-> CountStatus(results, REQUIRES_REVIEW),
          validation_results    |-> results,
          summary_metrics       |-> summary_metrics,
          critical_issues       |-> { failedBlocking[n] : n \in DOMAIN failedBlocking } ]

\* CountMismatch checking one direction only
CountMismatchOneSided(batch, specs) == Len(batch) > Len(specs)

\* if len(suggestions) != len(implementation_specs)
CountMismatch(batch, specs) == Len(batch) # Len(specs)

\* if validation_report.validation_coverage < 1.0
CoverageBelowRequired(coverage) == coverage.num < coverage.den

\* ExceptHandler that logs the exception and returns the report all the same
ExceptHandlerSwallows(exc) ==
    [ pc     |-> "returned",
      error  |-> NoError,
      report |-> GenerateComprehensiveReport(validation_results, suggestions,
                                             total_validations_required,
                                             total_validations_required) ]

\* except Exception as e: raise ValidationError(f"Comprehensive validation failed: {e}")
ExceptHandler(exc) ==
    [ pc     |-> "raised",
      error  |-> [ type |-> "ValidationError", message |-> "Comprehensive validation failed",
                   cause |-> exc ],
      report |-> NoReport ]

-----------------------------------------------------------------------------
(* ValidationEngine: inputs of the model *)

RichDescription ==
    "Optimize and automate BIM coordination, improve compliance analysis and productivity for Revit architectural engineering quality control"

\* suggestion dicts: with and without an 'id'
SuggestionWithId ==
    [ id |-> "x", name |-> "Smart Element Selector", description |-> RichDescription,
      category |-> "Selection Tools" ]
SuggestionWithoutId ==
    [ name |-> "Parameter Analyzer", description |-> "Comprehensive parameter analysis tool",
      category |-> "Analysis Tools" ]

SuggestionPool == { SuggestionWithId, SuggestionWithoutId }

\* implementation spec dicts: a complete one, and one with missing fields
CompleteSpec ==
    [ api_requirements |-> << "FilteredElementCollector" >>, external_dependencies |-> <<>>,
      revit_compatibility_score |-> Scale, effort_estimate |-> 10 ]
PartialSpec == [ api_requirements |-> << "Element.GetParameters" >> ]

SpecPool == { CompleteSpec, PartialSpec }

\* return values configured on the test double
StubPool ==
    { ValidationResult("test_1", "technical_feasibility", PASSED, (85 * Scale) \div 100, <<>>),
      ValidationResult("test_1", "technical_feasibility", FAILED, (65 * Scale) \div 100, <<>>) }

\* a suggestion with the spec generated for it
CasePool ==
    { [ suggestion |-> SuggestionWithId, spec |-> CompleteSpec ],
      [ suggestion |-> SuggestionWithoutId, spec |-> PartialSpec ] }

SeqsUpTo(S, n) == UNION { [1..m -> S] : m \in 0..n }

\* argument lists of a call: the suggestions with their specs, and lists of
\* different lengths
ArgumentPool ==
    { [ suggestions |-> [ n \in DOMAIN cases |-> cases[n].suggestion ],
        implementation_specs |-> [ n \in DOMAIN cases |-> cases[n].spec ] ] :
          cases \in SeqsUpTo(CasePool, MaxBatch) }
    \cup
    { args \in [ suggestions : SeqsUpTo(SuggestionPool, MaxBatch),
                 implementation_specs : SeqsUpTo(SpecPool, MaxBatch) ] :
          Len(args.suggestions) # Len(args.implementation_specs) }

\* the evaluator of a call: the engine's own, or the test double
EvaluatorPool ==
    { [ patched |-> FALSE, stub |-> NoStub ] }
    \cup { [ patched |-> TRUE, stub |-> stub ] : stub \in StubPool }

-----------------------------------------------------------------------------
(* CapabilityMapper: duplicate-detection database and check_for_duplicates *)

\* ExistingFunction(name, module_path, description, categories)
ExistingFunction(name, module_path, description, categories) ==
    [ name |-> name, module_path |-> module_path, description |-> description,
      categories |-> categories ]

\* the lookup keys _build_duplicate_detection_database derives from a function
LookupKeys(function) ==
    << Lower(function.name),
       Lower(function.module_path),
       Lower(Replace(function.name, "_", "")),
       Lower(Replace(function.name, "_", " ")) >>

HasKey(db, key) == \E n \in DOMAIN db : db[n].key = key

\* the lookup dict.get(key): the entity stored under key
Lookup(db, key) == db[CHOOSE n \in DOMAIN db : db[n].key = key].func

\* InsertKey storing the function under the key whether or not the key is taken
InsertKeyOverwrites(db, key, func) ==
    IF key = "" THEN db
    ELSE IF HasKey(db, key)
         THEN [ n \in DOMAIN db |-> IF db[n].key = key THEN [ key |-> key, func |-> func ]
                                                       ELSE db[n] ]
         ELSE Append(db, [ key |-> key, func |-> func ])

\* if key and key not in duplicate_db: duplicate_db[key] = function
InsertKey(db, key, func) ==
    IF key # "" /\ ~HasKey(db, key)
    THEN Append(db, [ key |-> key, func |-> func ])
    ELSE db

\* InsertKeys leaving the loop after the first key
InsertKeysFirstOnly(db, keys, func) ==
    IF Len(keys) = 0 THEN db ELSE InsertKey(db, Head(keys), func)

RECURSIVE InsertKeys(_, _, _)
\* for key in keys
InsertKeys(db, keys, func) ==
    IF Len(keys) = 0 THEN db
    ELSE InsertKeys(InsertKey(db, Head(keys), func), Tail(keys), func)

RECURSIVE BuildFrom(_, _, _)
BuildFrom(db, functions, n) ==
    IF n > Len(functions) THEN db
    ELSE BuildFrom(InsertKeys(db, LookupKeys(functions[n]), n), functions, n + 1)

\* _build_duplicate_detection_database: the dict in insertion order, an entity
\* being named by its position in existing_functions
BuildDuplicateDetectionDatabase(functions) == BuildFrom(<<>>, functions, 1)

\* MapperTextSimilarity without the lower() calls
MapperTextSimilarityCaseSensitive(text1, text2) ==
    LET words1 == Split(text1)
        words2 == Split(text2)
    IN  IF words1 = {} \/ words2 = {}
        THEN Ratio(0, 1)
        ELSE Ratio(Cardinality(words1 \cap words2), Cardinality(words1 \cup words2))

\* CapabilityMapper._calculate_text_similarity
MapperTextSimilarity(text1, text2) ==
    LET words1 == Split(Lower(text1))
        words2 == Split(Lower(text2))
    IN  IF words1 = {} \/ words2 = {}
        THEN Ratio(0, 1)
        ELSE Ratio(Cardinality(words1 \cap words2), Cardinality(words1 \cup words2))

\* r > 0.7
AboveDescriptionCutoff(r) == 10 * r.num > 7 * r.den

\* NameMatches testing one direction of containment only
NameMatchesOneWay(key, name_normalized) == Contains(name_normalized, key)

\* NameMatches skipping the comparison for an empty candidate name
NameMatchesNonEmpty(key, name_normalized) ==
    /\ name_normalized # ""
    /\ Contains(key, name_normalized) \/ Contains(name_normalized, key)

\* if key in name_normalized or name_normalized in key
NameMatches(key, name_normalized) ==
    Contains(key, name_normalized) \/ Contains(name_normalized, key)

\* UniqueByName returning potential_duplicates as collected
UniqueByNameKeepsRepeats(potential, functions, seen) == potential

RECURSIVE UniqueByName(_, _, _)
\* the seen / unique_duplicates loop
UniqueByName(potential, functions, seen) ==
    IF Len(potential) = 0 THEN <<>>
    ELSE IF functions[Head(potential)].name \in seen
         THEN UniqueByName(Tail(potential), functions, seen)
         ELSE << Head(potential) >>
                \o UniqueByName(Tail(potential), functions,
                                seen \cup { functions[Head(potential)].name })

\* check_for_duplicates
CheckForDuplicates(name, description, db, functions) ==
    LET name_normalized == Replace(Lower(name), "_", " ")
        desc_normalized == Lower(description)
        hit(entry) ==
            \/ NameMatches(entry.key, name_normalized)
            \/ AboveDescriptionCutoff(
                   MapperTextSimilarity(desc_normalized,
                                        Lower(functions[entry.func].description)))
        hits == SelectSeq(db, hit)
        potential_duplicates == [ n \in DOMAIN hits |-> hits[n].func ]
    IN  UniqueByName(potential_duplicates, functions, {})

\* expected_counts of _calculate_mapping_completeness
expected_counts == [ revitron |-> 50, pyrevit |-> 100, revit_api |-> 30 ]

\* _calculate_mapping_completeness, in 1/Scale units
CalculateMappingCompleteness(functions) ==
    LET total_expected ==
            expected_counts["revitron"] + expected_counts["pyrevit"]
              + expected_counts["revit_api"]
        counted == { <<n, c>> \in (DOMAIN functions) \X (DOMAIN expected_counts) :
                        c \in functions[n].categories }
    IN  Min(Scale, (Cardinality(counted) * Scale) \div total_expected)

\* entities as the mapping phases produce them: a known core function, the
\* same function extracted a second time from documentation, a function with
\* an underscore name, a function of the same name in another module, a
\* function extracted from "def _(x)" by the pattern def\s+(\w+)\s*\(, and
\* one extracted from "def export(x)" (a single group: module_path = name)
FunctionPool ==
    { ExistingFunction("Filter", "revitron.Filter", "element filtering",
                       { "filtering", "selection" }),
      ExistingFunction("Filter", "revitron.Filter", "Advanced element filtering tool",
                       { "revitron" }),
      ExistingFunction("by_category", "revitron.Filter.by_category",
                       "Filter elements by Revit category", { "filtering" }),
      ExistingFunction("Filter", "pyrevit.Filter", "Element filtering", { "pyrevit" }),
      ExistingFunction("_", "_", "Function extracted from Revitron Documentation",
                       { "revitron" }),
      ExistingFunction("export", "export", "Function extracted from Revitron Documentation",
                       { "revitron" }) }

NamePool == { "Smart Filter", "Filter", "by_category", "" }

DescriptionPool ==
    { "advanced element filtering tool", "advanced element filtering", "export sheets to pdf" }

\* map_existing_functionality: phases 1-3 extend existing_functions, phase 5
\* rebuilds the database, and the completeness check raises MappingError
\* below 90%
MapExistingFunctionality(mapped) ==
    /\ Len(existing_functions) + Len(mapped) <= MaxFunctions
    /\ existing_functions' = existing_functions \o mapped
    /\ duplicate_detection_db' = BuildDuplicateDetectionDatabase(existing_functions')
    /\ database_built' = TRUE
    /\ mpc' = IF CalculateMappingCompleteness(existing_functions') < (9 * Scale) \div 10
              THEN "mapping_raised" ELSE "mapped"
    /\ UNCHANGED <<suggestion_name, suggestion_description, unique_duplicates>>

\* a check_for_duplicates call: the method reads self.duplicate_detection_db
\* as it is, whether or not map_existing_functionality has run
CheckForDuplicatesCall(name, description) ==
    /\ suggestion_name' = name
    /\ suggestion_description' = description
    /\ unique_duplicates' =
         CheckForDuplicates(name, description, duplicate_detection_db, existing_functions)
    /\ mpc' = "checked"
    /\ UNCHANGED <<existing_functions, duplicate_detection_db, database_built>>

-----------------------------------------------------------------------------
(* The scoring functions applied to single inputs *)

\* ButtonGenerator._calculate_similarity: the callers lower the texts
GeneratorSimilarity(text1, text2) ==
    LET words1 == Split(text1)
        words2 == Split(text2)
    IN  IF words1 = {} \/ words2 = {}
        THEN Ratio(0, 1)
        ELSE Ratio(Cardinality(words1 \cap words2), Cardinality(words1 \cup words2))

\* texts passed to the similarity functions: names and descriptions of
\* suggestions and of existing functions, empty and blank texts
TextPool ==
    { "", "  ", "filter", "Filter", "Smart Filter", "filter smart", "filter elements",
      "element filtering", "Element  filtering", "Element\tFiltering\n",
      "advanced element filtering tool", "Advanced element filtering" }

\* api_requirements / external_dependencies lists of a given length
Requirements(n) == [ i \in 1..n |-> "FilteredElementCollector" ]

\* implementation specs: complete, with missing fields, beyond the ranges the
\* feasibility formula divides by, with a compatibility score given in percent
HeavySpec ==
    [ api_requirements |-> Requirements(12), external_dependencies |-> Requirements(8),
      revit_compatibility_score |-> 0, effort_estimate |-> 250 ]
PercentSpec ==
    [ api_requirements |-> Requirements(1), external_dependencies |-> <<>>,
      revit_compatibility_score |-> 95 * Scale, effort_estimate |-> 10 ]
\* a spec as the specification generator describes it: three API requirements
\* and complexity low; and a spec dict with no field at all
CleanSpec ==
    [ api_requirements |-> Requirements(3), external_dependencies |-> <<>>,
      complexity |-> "low" ]
EmptyDict == [ field \in {} |-> "" ]
ScoringSpecPool == { CompleteSpec, PartialSpec, HeavySpec, PercentSpec, CleanSpec, EmptyDict }

\* a suggestion named as the known function Filter, and one whose description
\* names every workflow, industry keyword and problem indicator
SuggestionNamedFilter ==
    [ id |-> "dup", name |-> "filter", description |-> "Select elements on screen",
      category |-> "Selection Tools" ]
SuggestionAllKeywords ==
    [ id |-> "all", name |-> "Everything Tool",
      description |-> "design optimization documentation automation quality control "
                        \o "coordination analysis compliance productivity bim revit "
                        \o "architectural engineering construction aec optimize automate "
                        \o "improve enhance streamline coordinate",
      category |-> "productivity" ]
\* a suggestion that shares no word with the name or description of any
\* function the mapper knows
SuggestionClean ==
    [ id |-> "clean", name |-> "Sheet Renumberer", description |-> "Renumber sheets in bulk",
      category |-> "Documentation Tools" ]
ScoringSuggestionPool ==
    { SuggestionWithId, SuggestionWithoutId, SuggestionNamedFilter, SuggestionAllKeywords,
      SuggestionClean, EmptyDict }

\* lists a caller can assign to engine.existing_functions_db before a call of
\* _validate_duplicate_check: dicts with 'name' and 'description'
AssignedFunctionPool ==
    { [ name |-> "Filter", description |-> "Select elements on screen" ],
      [ name |-> "Filter", description |-> "element filtering" ],
      [ name |-> "Export Sheets", description |-> "export sheets to pdf" ] }
AssignedDbPool == SeqsUpTo(AssignedFunctionPool, 2) \ { <<>> }

NoSimilarity == [ computed |-> FALSE ]
NoResult == [ computed |-> FALSE ]

\* the three similarity functions applied to (text_a, text_b) and to (text_b, text_a)
CalculateSimilarities ==
    /\ spc = "ready"
    /\ similarity' =
         [ engine    |-> CalculateTextSimilarity(text_a, text_b),
           mapper    |-> MapperTextSimilarity(text_a, text_b),
           generator |-> GeneratorSimilarity(Lower(text_a), Lower(text_b)) ]
    /\ reversed' =
         [ engine    |-> CalculateTextSimilarity(text_b, text_a),
           mapper    |-> MapperTextSimilarity(text_b, text_a),
           generator |-> GeneratorSimilarity(Lower(text_b), Lower(text_a)) ]
    /\ spc' = "compared"
    /\ UNCHANGED <<text_a, text_b, candidate, candidate_spec, criterion, criterion_result,
                   assigned_db>>

\* self._validate_single_criterion(candidate, candidate_spec, criteria, id)
ApplyCriterion(criteria) ==
    /\ spc \in { "ready", "compared" }
    /\ criterion' = criteria
    /\ criterion_result' =
         ValidateSingleCriterion(candidate, candidate_spec, criteria,
                                 SuggestionId(candidate, 0))
    /\ spc' = "validated"
    /\ assigned_db' = <<>>
    /\ UNCHANGED <<text_a, text_b, similarity, reversed, candidate, candidate_spec>>

\* engine.existing_functions_db = existing, then
\* self._validate_duplicate_check(candidate, id): getattr finds the attribute
ApplyDuplicateCheckAssigned(existing) ==
    /\ spc \in { "ready", "compared" }
    /\ criterion' = "duplicate_check"
    /\ assigned_db' = existing
    /\ criterion_result' =
         ValidateDuplicateCheck(candidate, SuggestionId(candidate, 0), existing)
    /\ spc' = "validated"
    /\ UNCHANGED <<text_a, text_b, similarity, reversed, candidate, candidate_spec>>

ScoringIdle ==
    /\ text_a = ""
    /\ text_b = ""
    /\ similarity = NoSimilarity
    /\ reversed = NoSimilarity
    /\ candidate = SuggestionWithId
    /\ candidate_spec = CompleteSpec
    /\ criterion = "none"
    /\ criterion_result = NoResult
    /\ assigned_db = <<>>
    /\ spc = "idle"

\* a pair of texts to compare, or a candidate with a spec to validate
ScoringInit ==
    /\ \/ /\ text_a \in TextPool
          /\ text_b \in TextPool
          /\ candidate = SuggestionWithId
          /\ candidate_spec = CompleteSpec
       \/ /\ text_a = ""
          /\ text_b = ""
          /\ candidate \in ScoringSuggestionPool
          /\ candidate_spec \in ScoringSpecPool
    /\ similarity = NoSimilarity
    /\ reversed = NoSimilarity
    /\ criterion = "none"
    /\ criterion_result = NoResult
    /\ assigned_db = <<>>
    /\ spc = "ready"

-----------------------------------------------------------------------------
(* ButtonGenerator: category distribution, the generation loop, real-time *)
(* validation and check_duplicates_against_existing                      *)

\* class ButtonCategory, in definition (= iteration) order
ButtonCategory ==
    << "SELECTION_FILTERING", "MODEL_MANAGEMENT", "DOCUMENTATION_REPORTING",
       "AUTOMATION_WORKFLOW", "ANALYSIS_SIMULATION" >>

priority_categories == { "SELECTION_FILTERING", "MODEL_MANAGEMENT" }

RECURSIVE DistributeFrom(_, _, _, _)
\* the loop of _calculate_category_distribution from category n on
DistributeFrom(n, base_count, remainder, distribution) ==
    IF n > Len(ButtonCategory) THEN distribution
    ELSE IF ButtonCategory[n] \in priority_categories /\ remainder > 0
         THEN DistributeFrom(n + 1, base_count, remainder - 1,
                             Append(distribution, base_count + 1))
         ELSE DistributeFrom(n + 1, base_count, remainder, Append(distribution, base_count))

\* _calculate_category_distribution: the targets in ButtonCategory order
CalculateCategoryDistribution(total_count) ==
    DistributeFrom(1, total_count \div Len(ButtonCategory),
                   total_count % Len(ButtonCategory), <<>>)

RECURSIVE SumOf(_)
SumOf(seq) == IF Len(seq) = 0 THEN 0 ELSE Head(seq) + SumOf(Tail(seq))

\* keys of capability_data['duplicate_detection_database'] given to the generator
GeneratorKnownKeys == { "filter" }

\* ValidateSuggestionRealTime without the check against duplicate_tracker
ValidateSuggestionRealTimeUntracked(suggestion, tracker) ==
    LET suggestion_key == Replace(Lower(suggestion.name), " ", "")
    IN  IF \E existing_key \in GeneratorKnownKeys :
               Contains(existing_key, suggestion_key) \/ Contains(suggestion_key, existing_key)
        THEN [ accepted |-> FALSE, tracker |-> tracker ]
        ELSE IF suggestion.aec_workflow_relevance < (6 * Scale) \div 10
        THEN [ accepted |-> FALSE, tracker |-> tracker ]
        ELSE IF suggestion.innovation_score < (4 * Scale) \div 10
        THEN [ accepted |-> FALSE, tracker |-> tracker ]
        ELSE [ accepted |-> TRUE, tracker |-> tracker \cup { suggestion_key } ]

\* _validate_suggestion_real_time: the verdict and the duplicate_tracker after it
ValidateSuggestionRealTime(suggestion, tracker) ==
    LET suggestion_key == Replace(Lower(suggestion.name), " ", "")
    IN  IF \E existing_key \in GeneratorKnownKeys :
               Contains(existing_key, suggestion_key) \/ Contains(suggestion_key, existing_key)
        THEN [ accepted |-> FALSE, tracker |-> tracker ]
        ELSE IF suggestion_key \in tracker
        THEN [ accepted |-> FALSE, tracker |-> tracker ]
        ELSE IF suggestion.aec_workflow_relevance < (6 * Scale) \div 10
        THEN [ accepted |-> FALSE, tracker |-> tracker ]
        ELSE IF suggestion.innovation_score < (4 * Scale) \div 10
        THEN [ accepted |-> FALSE, tracker |-> tracker ]
        ELSE [ accepted |-> TRUE, tracker |-> tracker \cup { suggestion_key } ]

\* ButtonSuggestion objects a working _generate_single_suggestion can return
ButtonSuggestion(name, description, aec_workflow_relevance, innovation_score) ==
    [ kind |-> "ButtonSuggestion", name |-> name, description |-> description,
      aec_workflow_relevance |-> aec_workflow_relevance,
      innovation_score |-> innovation_score ]

GeneratedPool ==
    { ButtonSuggestion("Smart Selector", "enhanced element selection",
                       (9 * Scale) \div 10, (8 * Scale) \div 10),
      ButtonSuggestion("Smart Filter", "element filtering",
                       (9 * Scale) \div 10, (8 * Scale) \div 10),
      ButtonSuggestion("Adaptive Checker", "geometric relationship analysis",
                       (5 * Scale) \div 10, (8 * Scale) \div 10) }

\* the same, with a second spelling of a name and a third acceptable name:
\* the suggestions passed to _validate_suggestion_real_time
ValidatedPool ==
    GeneratedPool
    \cup { ButtonSuggestion("smart  selector", "smart selection of elements",
                            (9 * Scale) \div 10, (8 * Scale) \div 10),
           ButtonSuggestion("Sheet Renumberer", "renumber sheets in bulk",
                            (9 * Scale) \div 10, (8 * Scale) \div 10) }

\* the suggestions check_duplicates_against_existing is called with: objects,
\* and the dict of tests/test_framework.py:278
CheckedSuggestionPool ==
    { ButtonSuggestion("Smart Selector", "enhanced element selection", 0, 0),
      ButtonSuggestion("Filter", "select elements", 0, 0),
      ButtonSuggestion("Advanced Filter", "Element  filtering", 0, 0),
      [ kind |-> "dict", name |-> "Advanced Filter",
        description |-> "enhanced element filtering" ] }

\* the existing functions it is called with: the dict of
\* tests/test_framework.py:273, and an ExistingFunction of the mapper
CheckedExistingPool ==
    { [ kind |-> "dict", name |-> "filter", description |-> "element filtering" ],
      [ kind |-> "dict", name |-> "by_category",
        description |-> "Filter elements by Revit category" ],
      [ kind |-> "ExistingFunction", name |-> "Filter",
        description |-> "element filtering" ] }

\* name_similarity > 0.8 or desc_similarity > 0.7
SimilarToExisting(suggestion, existing_func) ==
    LET name_similarity == GeneratorSimilarity(Lower(suggestion.name), Lower(existing_func.name))
        desc_similarity == GeneratorSimilarity(Lower(suggestion.description),
                                               Lower(existing_func.description))
    IN  \/ 10 * name_similarity.num > 8 * name_similarity.den
        \/ 10 * desc_similarity.num > 7 * desc_similarity.den

RECURSIVE InnerLoop(_, _, _)
\* the loop over existing_functions for one suggestion: found, not found, or
\* the AttributeError of existing_func.get on an object that has no get
InnerLoop(suggestion, existing, n) ==
    IF n > Len(existing) THEN "none"
    ELSE IF existing[n].kind # "dict" THEN "AttributeError"
    ELSE IF SimilarToExisting(suggestion, existing[n]) THEN "duplicate"
    ELSE InnerLoop(suggestion, existing, n + 1)

RECURSIVE CountFrom(_, _, _, _)
\* the loop over suggestions from suggestion n on
CountFrom(checked, existing, n, duplicate_count) ==
    IF n > Len(checked) THEN [ returned |-> duplicate_count ]
    ELSE IF checked[n].kind # "ButtonSuggestion" THEN Raised("AttributeError")
    ELSE LET found == InnerLoop(checked[n], existing, 1)
         IN  IF found = "AttributeError" THEN Raised("AttributeError")
             ELSE CountFrom(checked, existing, n + 1,
                            IF found = "duplicate" THEN duplicate_count + 1
                            ELSE duplicate_count)

\* check_duplicates_against_existing
CheckDuplicatesAgainstExisting(checked, existing) == CountFrom(checked, existing, 1, 0)

NoCount == [ computed |-> FALSE ]

GeneratorInit ==
    /\ gpc = "idle"
    /\ target_count = 0
    /\ category_targets = <<>>
    /\ category_index = 0
    /\ category_suggestions = 0
    /\ category_attempts = 0
    /\ generated = <<>>
    /\ generated_suggestions = <<>>
    /\ duplicate_tracker = {}
    /\ validate_patched = FALSE
    /\ single_patched = FALSE
    /\ generation_error = NoError
    /\ generations = 0
    /\ rejections = 0
    /\ checked_suggestions = <<>>
    /\ checked_existing = <<>>
    /\ duplicate_result = NoCount
    /\ accepted_suggestions = EmptyBag

checkVars == <<checked_suggestions, checked_existing, duplicate_result>>

\* generate_validated_suggestions(target_count) is entered
GenerateStart(target, validatePatched, singlePatched) ==
    /\ gpc \in { "idle", "returned", "raised" }
    /\ generations < MaxGenerations
    /\ gpc' = "generating"
    /\ target_count' = target
    /\ category_targets' = CalculateCategoryDistribution(target)
    /\ category_index' = 1
    /\ category_suggestions' = 0
    /\ category_attempts' = 0
    /\ generated' = <<>>
    /\ validate_patched' = validatePatched
    /\ single_patched' = singlePatched
    /\ generation_error' = NoError
    /\ generations' = generations + 1
    /\ rejections' = 0
    /\ UNCHANGED <<generated_suggestions, duplicate_tracker, checkVars, accepted_suggestions>>

\* InCategoryLoop with max_attempts = target_count * 6
InCategoryLoopDoubleBudget ==
    /\ gpc = "generating"
    /\ category_index <= Len(ButtonCategory)
    /\ category_suggestions < category_targets[category_index]
    /\ category_attempts < target_count * 6

\* while len(category_suggestions) < category_target and category_attempts < max_attempts
InCategoryLoop ==
    /\ gpc = "generating"
    /\ category_index <= Len(ButtonCategory)
    /\ category_suggestions < category_targets[category_index]
    /\ category_attempts < target_count * 3

\* one pass of the while loop with a _generate_single_suggestion that returns
GenerateAttempt(suggestion) ==
    /\ InCategoryLoop
    /\ single_patched
    /\ category_attempts' = category_attempts + 1
    /\ LET verdict == IF validate_patched
                      THEN [ accepted |-> TRUE, tracker |-> duplicate_tracker ]
                      ELSE ValidateSuggestionRealTime(suggestion, duplicate_tracker)
       IN  /\ duplicate_tracker' = verdict.tracker
           /\ accepted_suggestions' =
                IF verdict.accepted /\ ~validate_patched
                THEN accepted_suggestions (+) SetToBag({ suggestion })
                ELSE accepted_suggestions
           /\ IF verdict.accepted
              THEN /\ category_suggestions' = category_suggestions + 1
                   /\ generated' = Append(generated, suggestion)
                   /\ UNCHANGED rejections
              ELSE /\ rejections' = rejections + 1
                   /\ UNCHANGED <<category_suggestions, generated>>
    /\ UNCHANGED <<gpc, target_count, category_targets, category_index,
                   generated_suggestions, validate_patched, single_patched,
                   generation_error, generations, checkVars>>

\* one pass of the while loop: _generate_single_suggestion calls
\* self._identify_api_requirements, which the class does not define; the
\* except clause re-raises GenerationError
GenerateAttemptRaises ==
    /\ InCategoryLoop
    /\ ~single_patched
    /\ gpc' = "raised"
    /\ generation_error' = [ type |-> "GenerationError", message |-> "Validated generation failed",
                             cause |-> "AttributeError" ]
    /\ UNCHANGED <<target_count, category_targets, category_index, category_suggestions,
                   category_attempts, generated, generated_suggestions, duplicate_tracker,
                   validate_patched, single_patched, generations, rejections, checkVars, accepted_suggestions>>

\* the while loop of a category is left: next category
NextCategory ==
    /\ gpc = "generating"
    /\ category_index <= Len(ButtonCategory)
    /\ ~InCategoryLoop
    /\ category_index' = category_index + 1
    /\ category_suggestions' = 0
    /\ category_attempts' = 0
    /\ UNCHANGED <<gpc, target_count, category_targets, generated, generated_suggestions,
                   duplicate_tracker, validate_patched, single_patched, generation_error,
                   generations, rejections, checkVars, accepted_suggestions>>

\* len(suggestions) < target_count * 0.9
BelowTolerance == 10 * Len(generated) < 9 * target_count

\* final quality check passed: the suggestions are stored and returned
GenerationReturns ==
    /\ gpc = "generating"
    /\ category_index > Len(ButtonCategory)
    /\ ~BelowTolerance
    /\ gpc' = "returned"
    /\ generated_suggestions' = generated
    /\ UNCHANGED <<target_count, category_targets, category_index, category_suggestions,
                   category_attempts, generated, duplicate_tracker, validate_patched,
                   single_patched, generation_error, generations, rejections, checkVars, accepted_suggestions>>

\* final quality check failed: GenerationError
GenerationBelowTarget ==
    /\ gpc = "generating"
    /\ category_index > Len(ButtonCategory)
    /\ BelowTolerance
    /\ gpc' = "raised"
    /\ generation_error' = [ type |-> "GenerationError", message |-> "Validated generation failed",
                             cause |-> "GenerationError" ]
    /\ UNCHANGED <<target_count, category_targets, category_index, category_suggestions,
                   category_attempts, generated, generated_suggestions, duplicate_tracker,
                   validate_patched, single_patched, generations, rejections, checkVars, accepted_suggestions>>

\* a check_duplicates_against_existing call on a generator
CheckDuplicatesCall(checked, existing) ==
    /\ gpc = "idle"
    /\ gpc' = "checked"
    /\ checked_suggestions' = checked
    /\ checked_existing' = existing
    /\ duplicate_result' = CheckDuplicatesAgainstExisting(checked, existing)
    /\ UNCHANGED <<target_count, category_targets, category_index, category_suggestions,
                   category_attempts, generated, generated_suggestions, duplicate_tracker,
                   validate_patched, single_patched, generation_error, generations,
                   rejections, accepted_suggestions>>

\* a _validate_suggestion_real_time(suggestion) call on a generator that is
\* not generating
ValidateCall(suggestion) ==
    /\ gpc \in { "idle", "returned", "raised" }
    /\ LET verdict == ValidateSuggestionRealTime(suggestion, duplicate_tracker)
       IN  /\ duplicate_tracker' = verdict.tracker
           /\ accepted_suggestions' =
                IF verdict.accepted
                THEN accepted_suggestions (+) SetToBag({ suggestion })
                ELSE accepted_suggestions
    /\ UNCHANGED <<gpc, target_count, category_targets, category_index,
                   category_suggestions, category_attempts, generated,
                   generated_suggestions, validate_patched, single_patched,
                   generation_error, generations, rejections, checkVars>>

-----------------------------------------------------------------------------
(* RevitronEnhancementFramework.execute_comprehensive_enhancement_pipeline *)

\* the phases of the pipeline, in the order of the method body
PipelinePhases ==
    << "research", "capability_mapping", "generation", "specification",
       "validation", "quality_assurance" >>

\* FrameworkConfiguration.research_completeness_threshold: the default, and a
\* value loaded from a configuration file
ThresholdPool == { Scale, (95 * Scale) \div 100 }

\* what ResearchFramework.execute_primary_research does for the controller:
\* the method itself raises CriticalResearchError (it calls
\* self._map_existing_functionality, which the class does not define); a
\* stand-in for the external research collaborator returns a report with a
\* completeness score and the documentation it extracted, given here by the
\* number of function definitions the mapper's patterns find in it
ResearchRaises == Raised("CriticalResearchError")
ResearchReport(completeness_score, functions_in_content) ==
    [ completeness_score |-> completeness_score,
      functions_in_content |-> functions_in_content ]
ResearchOutcomes ==
    { ResearchRaises }
    \cup { ResearchReport(c, n) :
             c \in { (9 * Scale) \div 10, (97 * Scale) \div 100, Scale },
             n \in { 0, 100, 170, 200 } }

\* CapabilityMapper(research_results).map_existing_functionality(): every
\* function extracted from the content counts for _calculate_mapping_completeness,
\* the known functions (categories filtering, selection, ...) do not
MappingCompletenessOf(research_data) ==
    LET total_expected ==
            expected_counts["revitron"] + expected_counts["pyrevit"]
              + expected_counts["revit_api"]
    IN  Min(Scale, (research_data.functions_in_content * Scale) \div total_expected)

\* gate_results.get('quality_score', gate_results.get('completeness_score', 0))
GateScore(gate_results) ==
    Get(gate_results, "quality_score", Get(gate_results, "completeness_score", 0))

NoGates == [ gate \in {} |-> FALSE ]

\* self.quality_gates_passed[gate_name] = passed
SetGate(gates, gate_name, passed) ==
    [ g \in DOMAIN gates \cup { gate_name } |-> IF g = gate_name THEN passed ELSE gates[g] ]

\* except Exception as e: raise CriticalFrameworkError(...)
PipelineAborts(cause) ==
    [ type |-> "CriticalFrameworkError", message |-> "Pipeline execution failed",
      cause |-> cause ]

NoData == [ returned |-> FALSE ]

PipelineInit ==
    /\ ppc = "idle"
    /\ research_completeness_threshold \in ThresholdPool
    /\ quality_gates_passed = NoGates
    /\ research_results = NoData
    /\ capability_data = NoData
    /\ phases_started = <<>>
    /\ pipeline_error = NoError
    /\ runs = 0

\* execute_comprehensive_enhancement_pipeline is entered
PipelineStart ==
    /\ ppc \in { "idle", "aborted" }
    /\ runs < MaxRuns
    /\ ppc' = "research"
    /\ runs' = runs + 1
    /\ research_results' = NoData
    /\ capability_data' = NoData
    /\ phases_started' = <<>>
    /\ pipeline_error' = NoError
    /\ UNCHANGED <<research_completeness_threshold, quality_gates_passed>>

\* phase 1, _execute_research_phase: the research, then the completeness check
ExecuteResearchPhase(outcome) ==
    /\ ppc = "research"
    /\ phases_started' = Append(phases_started, "research")
    /\ IF IsRaised(outcome)
       THEN /\ ppc' = "aborted"
            /\ pipeline_error' = PipelineAborts(outcome.raised)
            /\ UNCHANGED research_results
       ELSE IF outcome.completeness_score < research_completeness_threshold
       THEN /\ ppc' = "aborted"
            /\ pipeline_error' = PipelineAborts("CriticalFrameworkError")
            /\ UNCHANGED research_results
       ELSE /\ ppc' = "research_gate"
            /\ research_results' = outcome
            /\ UNCHANGED pipeline_error
    /\ UNCHANGED <<research_completeness_threshold, quality_gates_passed,
                   capability_data, runs>>

\* self._validate_quality_gate("research_completeness", research_results)
ResearchQualityGate ==
    /\ ppc = "research_gate"
    /\ LET passed == GateScore(research_results) >= research_completeness_threshold
       IN  /\ quality_gates_passed' = SetGate(quality_gates_passed, "research_completeness", passed)
           /\ IF passed
              THEN ppc' = "capability_mapping" /\ UNCHANGED pipeline_error
              ELSE /\ ppc' = "aborted"
                   /\ pipeline_error' = PipelineAborts("CriticalFrameworkError")
    /\ UNCHANGED <<research_completeness_threshold, research_results, capability_data,
                   phases_started, runs>>

\* phase 2, _execute_capability_mapping: the mapper raises MappingError below
\* 90% completeness; otherwise it returns a FunctionalityMapping object, and
\* capability_data['existing_functions'] raises TypeError on it
ExecuteCapabilityMapping ==
    /\ ppc = "capability_mapping"
    /\ phases_started' = Append(phases_started, "capability_mapping")
    /\ ppc' = "aborted"
    /\ LET mapping_completeness == MappingCompletenessOf(research_results)
       IN  IF mapping_completeness < (9 * Scale) \div 10
           THEN /\ pipeline_error' = PipelineAborts("MappingError")
                /\ UNCHANGED capability_data
           ELSE /\ capability_data' = [ returned |-> TRUE, kind |-> "FunctionalityMapping",
                                        mapping_completeness |-> mapping_completeness ]
                /\ pipeline_error' = PipelineAborts("TypeError")
    /\ UNCHANGED <<research_completeness_threshold, quality_gates_passed,
                   research_results, runs>>

-----------------------------------------------------------------------------
(* ValidationEngine.validate_comprehensive_coverage, step by step *)

EngineInit ==
    /\ validation_results = <<>>
    /\ coverage_tracker = EmptyTracker
    /\ pc = "idle"
    /\ suggestions = <<>>
    /\ implementation_specs = <<>>
    /\ patched = FALSE
    /\ stub_result = NoStub
    /\ idx = 0
    /\ crit = 0
    /\ validations_completed = 0
    /\ total_validations_required = 0
    /\ report = NoReport
    /\ error = NoError
    /\ calls = 0
    /\ call_start = 0
    /\ batch_ids = <<>>
    /\ batch_size = 0
    /\ batch_specs = 0

CanCall == pc \in { "idle", "returned", "raised" } /\ calls < MaxCalls

BatchIds(batch) == [ n \in DOMAIN batch |-> SuggestionId(batch[n], n - 1) ]

\* entry with lists of different lengths: raises before the try block
CallMismatch(batch, specs) ==
    /\ pc' = "raised"
    /\ error' = [ type |-> "ValidationError",
                  message |-> "Suggestions and implementation specs count mismatch",
                  cause |-> "none" ]
    /\ report' = NoReport
    /\ calls' = calls + 1
    /\ call_start' = Len(validation_results)
    /\ batch_ids' = <<>>
    /\ batch_size' = Len(batch)
    /\ batch_specs' = Len(specs)
    /\ suggestions' = <<>>
    /\ implementation_specs' = <<>>
    /\ patched' = FALSE
    /\ stub_result' = NoStub
    /\ idx' = 0
    /\ crit' = 0
    /\ validations_completed' = 0
    /\ total_validations_required' = 0
    /\ UNCHANGED <<validation_results, coverage_tracker>>

\* entry: total_validations_required, validations_completed = 0, loop begins
CallStart(batch, specs, isPatched, stub) ==
    /\ pc' = IF Len(batch) = 0 THEN "phase2" ELSE "phase1"
    /\ suggestions' = batch
    /\ implementation_specs' = specs
    /\ patched' = isPatched
    /\ stub_result' = IF isPatched THEN stub ELSE NoStub
    /\ idx' = 0
    /\ crit' = 0
    /\ total_validations_required' = Len(batch) * Len(ValidationCriteria)
    /\ validations_completed' = 0
    /\ report' = NoReport
    /\ error' = NoError
    /\ calls' = calls + 1
    /\ call_start' = Len(validation_results)
    /\ batch_ids' = BatchIds(batch)
    /\ batch_size' = Len(batch)
    /\ batch_specs' = Len(specs)
    /\ UNCHANGED <<validation_results, coverage_tracker>>

\* validate_comprehensive_coverage(suggestions, implementation_specs) is entered
Call(batch, specs, isPatched, stub) ==
    /\ CanCall
    /\ IF CountMismatch(batch, specs)
       THEN CallMismatch(batch, specs)
       ELSE CallStart(batch, specs, isPatched, stub)

\* the call is over: its locals are gone
EndOfCall ==
    /\ suggestions' = <<>>
    /\ implementation_specs' = <<>>
    /\ patched' = FALSE
    /\ stub_result' = NoStub
    /\ idx' = 0
    /\ crit' = 0

\* head of the outer loop body: suggestion_id, coverage_tracker[suggestion_id] = set()
BeginSuggestion ==
    /\ pc = "phase1"
    /\ crit = 0
    /\ coverage_tracker' =
         TrackerInit(coverage_tracker, SuggestionId(suggestions[idx + 1], idx))
    /\ crit' = 1
    /\ UNCHANGED <<validation_results, pc, suggestions, implementation_specs, patched,
                   stub_result, idx, validations_completed, total_validations_required,
                   report, error, calls, call_start, batch_ids, batch_size, batch_specs>>

CurrentEvaluation ==
    CallValidateSingleCriterion(suggestions[idx + 1], implementation_specs[idx + 1],
                                ValidationCriteria[crit],
                                SuggestionId(suggestions[idx + 1], idx),
                                patched, stub_result)

\* one pass of the inner loop: the evaluation returns a result
ValidateCriterion ==
    /\ pc = "phase1"
    /\ crit >= 1
    /\ LET validation_result == CurrentEvaluation
       IN  /\ ~IsRaised(validation_result)
           /\ validation_results' = Append(validation_results, validation_result)
    /\ coverage_tracker' =
         TrackerAdd(coverage_tracker, SuggestionId(suggestions[idx + 1], idx),
                    ValidationCriteria[crit])
    /\ validations_completed' = validations_completed + 1
    /\ IF crit < Len(ValidationCriteria)
       THEN /\ crit' = crit + 1
            /\ UNCHANGED <<idx, pc>>
       ELSE /\ crit' = 0
            /\ idx' = idx + 1
            /\ pc' = IF idx + 1 < Len(suggestions) THEN "phase1" ELSE "phase2"
    /\ UNCHANGED <<suggestions, implementation_specs, patched, stub_result,
                   total_validations_required, report, error, calls, call_start,
                   batch_ids, batch_size, batch_specs>>

\* one pass of the inner loop: the evaluation raises, the except clause re-raises
ValidateCriterionRaises ==
    /\ pc = "phase1"
    /\ crit >= 1
    /\ LET validation_result == CurrentEvaluation
       IN  /\ IsRaised(validation_result)
           /\ LET handled == ExceptHandler(validation_result.raised)
              IN  /\ pc' = handled.pc
                  /\ error' = handled.error
                  /\ report' = handled.report
    /\ EndOfCall
    /\ UNCHANGED <<validation_results, coverage_tracker, validations_completed,
                   total_validations_required, calls, call_start, batch_ids, batch_size, batch_specs>>

CurrentReport ==
    GenerateComprehensiveReport(validation_results, suggestions, validations_completed,
                                total_validations_required)

\* phases 2 and 3 and the final check: the report is returned
ReturnReport ==
    /\ pc = "phase2"
    /\ LET validation_report == CurrentReport
       IN  /\ ~CoverageBelowRequired(validation_report.validation_coverage)
           /\ report' = validation_report
    /\ pc' = "returned"
    /\ error' = NoError
    /\ EndOfCall
    /\ UNCHANGED <<validation_results, coverage_tracker, validations_completed,
                   total_validations_required, calls, call_start, batch_ids, batch_size, batch_specs>>

\* phases 2 and 3 and the final check: coverage < 1.0 raises inside the try block
CoverageCheckRaises ==
    /\ pc = "phase2"
    /\ CoverageBelowRequired(CurrentReport.validation_coverage)
    /\ LET handled == ExceptHandler("ValidationError")
       IN  /\ pc' = handled.pc
           /\ error' = handled.error
           /\ report' = handled.report
    /\ EndOfCall
    /\ UNCHANGED <<validation_results, coverage_tracker, validations_completed,
                   total_validations_required, calls, call_start, batch_ids, batch_size, batch_specs>>

MapperInit ==
    /\ existing_functions = <<>>
    /\ duplicate_detection_db = <<>>
    /\ database_built = FALSE
    /\ mpc = "init"
    /\ suggestion_name = ""
    /\ suggestion_description = ""
    /\ unique_duplicates = <<>>

\* a framework with the default configuration, not run
PipelineIdle == PipelineInit /\ research_completeness_threshold = Scale

Init == EngineInit /\ MapperInit /\ ScoringIdle /\ GeneratorInit /\ PipelineIdle

Next ==
    \/ /\ \E args \in ArgumentPool, double \in EvaluatorPool :
            Call(args.suggestions, args.implementation_specs, double.patched, double.stub)
       /\ UNCHANGED outsideEngine
    \/ BeginSuggestion /\ UNCHANGED outsideEngine
    \/ ValidateCriterion /\ UNCHANGED outsideEngine
    \/ ValidateCriterionRaises /\ UNCHANGED outsideEngine
    \/ ReturnReport /\ UNCHANGED outsideEngine
    \/ CoverageCheckRaises /\ UNCHANGED outsideEngine

Spec == Init /\ [][Next]_vars

MapperNext ==
    \/ /\ \E mapped \in SeqsUpTo(FunctionPool, MaxFunctions) : MapExistingFunctionality(mapped)
       /\ UNCHANGED outsideMapper
    \/ /\ \E name \in NamePool, description \in DescriptionPool :
            CheckForDuplicatesCall(name, description)
       /\ UNCHANGED outsideMapper

SpecMapper == Init /\ [][MapperNext]_vars

ScoringNext ==
    \/ CalculateSimilarities /\ UNCHANGED outsideScoring
    \/ /\ \E criteria \in CriteriaSet : ApplyCriterion(criteria)
       /\ UNCHANGED outsideScoring
    \/ /\ \E existing \in AssignedDbPool : ApplyDuplicateCheckAssigned(existing)
       /\ UNCHANGED outsideScoring

InitScoring == EngineInit /\ MapperInit /\ ScoringInit /\ GeneratorInit /\ PipelineIdle

SpecScoring == InitScoring /\ [][ScoringNext]_vars

GeneratorNext ==
    \/ /\ \E target \in 1..MaxTarget, validatePatched \in BOOLEAN, singlePatched \in BOOLEAN :
            GenerateStart(target, validatePatched, singlePatched)
       /\ UNCHANGED outsideGenerator
    \/ /\ \E suggestion \in GeneratedPool : GenerateAttempt(suggestion)
       /\ UNCHANGED outsideGenerator
    \/ GenerateAttemptRaises /\ UNCHANGED outsideGenerator
    \/ NextCategory /\ UNCHANGED outsideGenerator
    \/ GenerationReturns /\ UNCHANGED outsideGenerator
    \/ GenerationBelowTarget /\ UNCHANGED outsideGenerator
    \/ /\ \E checked \in SeqsUpTo(CheckedSuggestionPool, MaxChecked),
              existing \in SeqsUpTo(CheckedExistingPool, MaxChecked) :
            CheckDuplicatesCall(checked, existing)
       /\ UNCHANGED outsideGenerator

SpecGenerator == Init /\ [][GeneratorNext]_vars

\* a step of the running generate_validated_suggestions call: the call is
\* sequential code, so it goes on as long as it has a next step
GenerationStep ==
    /\ \/ \E suggestion \in GeneratedPool : GenerateAttempt(suggestion)
       \/ GenerateAttemptRaises
       \/ NextCategory
       \/ GenerationReturns
       \/ GenerationBelowTarget
    /\ UNCHANGED outsideGenerator

\* generate_validated_suggestions calls on one generator
TerminationNext ==
    \/ /\ \E target \in 1..MaxValidatedTarget, validatePatched \in BOOLEAN,
              singlePatched \in BOOLEAN :
            GenerateStart(target, validatePatched, singlePatched)
       /\ UNCHANGED outsideGenerator
    \/ /\ \E suggestion \in GeneratedPool : GenerateAttempt(suggestion)
       /\ UNCHANGED outsideGenerator
    \/ GenerateAttemptRaises /\ UNCHANGED outsideGenerator
    \/ NextCategory /\ UNCHANGED outsideGenerator
    \/ GenerationReturns /\ UNCHANGED outsideGenerator
    \/ GenerationBelowTarget /\ UNCHANGED outsideGenerator

SpecTermination == Init /\ [][TerminationNext]_vars /\ WF_vars(GenerationStep)

\* one generator with its own _validate_suggestion_real_time: direct calls of
\* it, and generate_validated_suggestions calls
TrackerNext ==
    \/ /\ \E target \in 1..MaxValidatedTarget, singlePatched \in BOOLEAN :
            GenerateStart(target, FALSE, singlePatched)
       /\ UNCHANGED outsideGenerator
    \/ /\ \E suggestion \in ValidatedPool : GenerateAttempt(suggestion)
       /\ UNCHANGED outsideGenerator
    \/ GenerateAttemptRaises /\ UNCHANGED outsideGenerator
    \/ NextCategory /\ UNCHANGED outsideGenerator
    \/ GenerationReturns /\ UNCHANGED outsideGenerator
    \/ GenerationBelowTarget /\ UNCHANGED outsideGenerator
    \/ /\ \E suggestion \in ValidatedPool : ValidateCall(suggestion)
       /\ UNCHANGED outsideGenerator

SpecTracker == Init /\ [][TrackerNext]_vars

PipelineNext ==
    \/ PipelineStart /\ UNCHANGED outsidePipeline
    \/ /\ \E outcome \in ResearchOutcomes : ExecuteResearchPhase(outcome)
       /\ UNCHANGED outsidePipeline
    \/ ResearchQualityGate /\ UNCHANGED outsidePipeline
    \/ ExecuteCapabilityMapping /\ UNCHANGED outsidePipeline

InitPipeline ==
    EngineInit /\ MapperInit /\ ScoringIdle /\ GeneratorInit /\ PipelineInit

SpecPipeline == InitPipeline /\ [][PipelineNext]_vars

-----------------------------------------------------------------------------
(* Properties of validate_comprehensive_coverage *)

CallOver == pc \in { "returned", "raised" }

\* the batch of the last call had as many specs as suggestions
CountsMatch == batch_size = batch_specs

\* the results the last call appended
OwnResults == SubSeq(validation_results, call_start + 1, Len(validation_results))

FullCoverage(r) == r.validation_coverage.num = r.validation_coverage.den

TrackerPairs(tracker) == { <<x, c>> \in (DOMAIN tracker) \X CriteriaSet : c \in tracker[x] }

\* C1: coverage totality. The first call on an engine, for a batch of N >= 1
\* suggestions and N specs, returns; the engine then holds exactly N x 7
\* results and the report's validation_coverage is 1.0.
C1_CoverageTotality ==
    (CallOver /\ calls = 1 /\ CountsMatch /\ batch_size >= 1)
        => /\ pc = "returned"
           /\ Len(validation_results) = batch_size * Len(ValidationCriteria)
           /\ FullCoverage(report)

\* C2: an aborted batch is never reported. A call that ends with fewer than
\* N x 7 results recorded for its batch has raised ValidationError and returned
\* no report; a report with validation_coverage 1.0 exists only for a call
\* that returned after recording all N x 7 results of its batch.
C2_AbortedBatchRaises ==
    /\ (CallOver /\ CountsMatch
          /\ Len(OwnResults) < batch_size * Len(ValidationCriteria))
         => (pc = "raised" /\ error.type = "ValidationError" /\ report = NoReport)
    /\ (report # NoReport /\ FullCoverage(report))
         => (pc = "returned"
               /\ Len(OwnResults) = batch_size * Len(ValidationCriteria))

\* C2 witness: an evaluation raised in the middle of a batch and the call
\* ended with some, but not all, of the batch's results recorded
C2_Witness ==
    /\ pc = "raised"
    /\ error.cause = "AttributeError"
    /\ Len(OwnResults) > 0
    /\ Len(OwnResults) < batch_size * Len(ValidationCriteria)

\* C3: an empty batch is valid. A call with 0 suggestions and 0 specs returns
\* a report with validation_coverage 1.0, having recorded 0 results.
C3_EmptyBatchValid ==
    (CallOver /\ batch_size = 0 /\ batch_specs = 0)
        => (pc = "returned" /\ FullCoverage(report) /\ Len(OwnResults) = 0)

\* C4: the engine is stateless between batches. The report a call returns is
\* the report over the N x 7 results of that call's batch alone: its
\* validation_results, overall_quality_score, status counts and per-criterion
\* averages are those of the call's own results.
C4_StatelessBetweenBatches ==
    pc = "returned"
        => /\ Len(OwnResults) = batch_size * Len(ValidationCriteria)
           /\ report = GenerateComprehensiveReport(OwnResults, batch_ids,
                                                   validations_completed,
                                                   total_validations_required)

\* C5: whenever a report is returned the coverage tracker holds exactly
\* N x 7 (id, criterion) pairs, that is N ids each covered by all 7 criteria,
\* whatever the ids of the batch (absent, or shared between suggestions).
C5_TrackerExact ==
    pc = "returned"
        => /\ Cardinality(TrackerPairs(coverage_tracker))
                = batch_size * Len(ValidationCriteria)
           /\ Cardinality(DOMAIN coverage_tracker) = batch_size
           /\ VerifyCoverageCompleteness(coverage_tracker).complete_coverage_count
                = batch_size

\* C6: a count mismatch raises before anything is evaluated. The step that
\* enters a call with len(suggestions) != len(implementation_specs) ends the
\* call with ValidationError and leaves validation_results and
\* coverage_tracker as they were.
C6_MismatchRaisesFirst ==
    [][ (calls' = calls + 1 /\ batch_size' # batch_specs')
          => /\ pc' = "raised"
             /\ error'.type = "ValidationError"
             /\ validation_results' = validation_results
             /\ coverage_tracker' = coverage_tracker ]_vars

\* C6 witness: a mismatched call was made on an engine that held results
C6_Witness ==
    /\ pc = "raised"
    /\ ~CountsMatch
    /\ Len(validation_results) > 0
    /\ DOMAIN coverage_tracker # {}

\* C7: criterion failures never block a batch. A call for which all N x 7
\* evaluations ran returns a report with validation_coverage 1.0, whatever
\* the number of FAILED results.
C7_FailuresNeverBlock ==
    (CallOver /\ CountsMatch
       /\ validations_completed = batch_size * Len(ValidationCriteria))
        => (pc = "returned" /\ FullCoverage(report))

\* candidate n of the last batch, by the position of its 7 results
ResultsOfCandidate(n) ==
    SubSeq(OwnResults, (n - 1) * Len(ValidationCriteria) + 1, n * Len(ValidationCriteria))

AllPassed(rs) == \A k \in DOMAIN rs : rs[k].status = PASSED
SomeFailed(rs) == \E k \in DOMAIN rs : rs[k].status = FAILED

\* C8: a returned report counts candidates by aggregate status:
\* passed_suggestions is the number of candidates whose 7 results all passed,
\* failed_suggestions the number with at least one failed result, and
\* passed + failed + requires_review = total_suggestions.
C8_CountsAreCandidates ==
    pc = "returned"
        => /\ report.passed_suggestions
                = Cardinality({ n \in DOMAIN batch_ids : AllPassed(ResultsOfCandidate(n)) })
           /\ report.failed_suggestions
                = Cardinality({ n \in DOMAIN batch_ids : SomeFailed(ResultsOfCandidate(n)) })
           /\ report.passed_suggestions + report.failed_suggestions
                + report.requires_review = report.total_suggestions

-----------------------------------------------------------------------------
(* Properties of check_for_duplicates *)

NameNormalized == Replace(Lower(suggestion_name), "_", " ")

KeyMatches(entry) ==
    \/ Contains(entry.key, NameNormalized)
    \/ Contains(NameNormalized, entry.key)

Returned == { unique_duplicates[n] : n \in DOMAIN unique_duplicates }

\* C9 as stated: check_for_duplicates returns every entity stored under a
\* lookup key that contains, or is contained in, the normalized candidate name.
C9_EveryKeyMatchReturned ==
    mpc = "checked"
        => \A n \in DOMAIN duplicate_detection_db :
              KeyMatches(duplicate_detection_db[n])
                  => duplicate_detection_db[n].func \in Returned

\* C9 amended: for every entity stored under a lookup key that contains, or is
\* contained in, the normalized candidate name, check_for_duplicates returns
\* an entity of the same name (another entity of that name is dropped by the
\* by-name deduplication); so any such key makes the result non-empty, as for
\* candidate 'Smart Filter' against entity 'Filter'.
C9_KeyMatchReturnedByName ==
    mpc = "checked"
        => \A n \in DOMAIN duplicate_detection_db :
              KeyMatches(duplicate_detection_db[n])
                  => \E r \in Returned :
                        existing_functions[r].name
                            = existing_functions[duplicate_detection_db[n].func].name

\* C9 witness: candidate 'Smart Filter' was checked against a table holding
\* the key 'filter', and the result is not empty
C9_Witness ==
    /\ mpc = "checked"
    /\ suggestion_name = "Smart Filter"
    /\ HasKey(duplicate_detection_db, "filter")
    /\ \A d \in Returned :
          ~AboveDescriptionCutoff(
               MapperTextSimilarity(suggestion_description, existing_functions[d].description))
    /\ Len(unique_duplicates) > 0

\* C10: check_for_duplicates returns every entity of existing_functions whose
\* description has word-set Jaccard similarity > 0.7 with the candidate
\* description, keyed in the lookup table or not.
C10_EverySimilarEntityReturned ==
    mpc = "checked"
        => \A n \in DOMAIN existing_functions :
              AboveDescriptionCutoff(
                  MapperTextSimilarity(suggestion_description,
                                       existing_functions[n].description))
                  => n \in Returned

\* the entities of existing_functions that generate the key
Generators(key) ==
    { n \in DOMAIN existing_functions :
        \E k \in DOMAIN LookupKeys(existing_functions[n]) :
            LookupKeys(existing_functions[n])[k] = key }

FirstOf(S) == CHOOSE n \in S : \A m \in S : n <= m

\* C11: first writer wins. After _build_duplicate_detection_database every
\* key generated from an entity (lowercase name, lowercase module path,
\* lowercase name with '_' removed, lowercase name with '_' replaced by a
\* space) is stored and maps to the first entity of existing_functions that
\* generates it.
C11_EveryKeyFirstWriter ==
    \A n \in DOMAIN existing_functions :
       \A k \in DOMAIN LookupKeys(existing_functions[n]) :
          LET key == LookupKeys(existing_functions[n])[k]
          IN  /\ HasKey(duplicate_detection_db, key)
              /\ Lookup(duplicate_detection_db, key) = FirstOf(Generators(key))

\* C11 (amended): every non-empty generated key is stored exactly once and
\* maps to the first entity of existing_functions that generates it; the
\* empty key is never stored.
C11_FirstWriterWins ==
    /\ \A n \in DOMAIN existing_functions :
         \A k \in DOMAIN LookupKeys(existing_functions[n]) :
            LET key == LookupKeys(existing_functions[n])[k]
            IN  key # ""
                  => /\ HasKey(duplicate_detection_db, key)
                     /\ Lookup(duplicate_detection_db, key) = FirstOf(Generators(key))
    /\ \A i, j \in DOMAIN duplicate_detection_db :
         duplicate_detection_db[i].key = duplicate_detection_db[j].key => i = j
    /\ ~HasKey(duplicate_detection_db, "")

\* the database was built from two entities generating a common key, the
\* second generating a key of its own as well
C11_Witness ==
    /\ mpc \in { "mapped", "mapping_raised" }
    /\ \E key \in { duplicate_detection_db[i].key : i \in DOMAIN duplicate_detection_db } :
         /\ Cardinality(Generators(key)) >= 2
         /\ Lookup(duplicate_detection_db, key) = 1
    /\ \E i \in DOMAIN duplicate_detection_db : duplicate_detection_db[i].func = 2

\* the entry makes check_for_duplicates record its entity: its key matches
\* the candidate name or its entity's description is similar to the
\* candidate's
EntryMatched(entry) ==
    \/ KeyMatches(entry)
    \/ AboveDescriptionCutoff(
           MapperTextSimilarity(Lower(suggestion_description),
                                Lower(existing_functions[entry.func].description)))

\* position in the lookup table, in iteration order, of the first matched
\* entry whose entity has the name
FirstMatch(name) ==
    FirstOf({ n \in DOMAIN duplicate_detection_db :
                /\ EntryMatched(duplicate_detection_db[n])
                /\ existing_functions[duplicate_detection_db[n].func].name = name })

ReturnedName(i) == existing_functions[unique_duplicates[i]].name

\* C12: the list returned by check_for_duplicates holds no two entities of
\* the same name, each returned entity is the first one matched under its
\* name, and the entities are in the order of their first match.
C12_UniqueInMatchOrder ==
    mpc = "checked"
        => /\ \A i, j \in DOMAIN unique_duplicates :
                ReturnedName(i) = ReturnedName(j) => i = j
           /\ \A i \in DOMAIN unique_duplicates :
                unique_duplicates[i] = duplicate_detection_db[FirstMatch(ReturnedName(i))].func
           /\ \A i, j \in DOMAIN unique_duplicates :
                i < j => FirstMatch(ReturnedName(i)) < FirstMatch(ReturnedName(j))

\* a check returned two entities after dropping a repeated match
C12_Witness ==
    /\ mpc = "checked"
    /\ Len(unique_duplicates) >= 2
    /\ Cardinality({ n \in DOMAIN duplicate_detection_db :
                       EntryMatched(duplicate_detection_db[n]) }) > Len(unique_duplicates)

-----------------------------------------------------------------------------
(* Properties of the scoring functions *)

Validated(criteria) == spc = "validated" /\ criterion = criteria

\* the candidate bears the lowercase name of a function the mapper knows
NamedAsKnownFunction(suggestion) ==
    \E function \in FunctionPool :
        Lower(Get(suggestion, "name", "")) = Lower(function.name)

\* C13: exact duplicate rejected. For a candidate whose lowercase name is the
\* lowercase name of a known existing function, the duplicate_check criterion
\* yields score 0.0 and status FAILED, whatever the descriptions.
C13_ExactDuplicateRejected ==
    (Validated("duplicate_check") /\ NamedAsKnownFunction(candidate))
        => /\ ~IsRaised(criterion_result)
           /\ criterion_result.score = 0
           /\ criterion_result.status = FAILED

\* C14: for each of the 7 criteria the evaluation yields a ValidationResult
\* whose status is PASSED exactly when its score >= the criterion's threshold
\* (0.8, 1.0, 0.7, 0.6, 0.9, 0.5, 0.7 in ValidationCriteria order) and FAILED
\* otherwise.
C14_StatusByThreshold ==
    spc = "validated"
        => /\ ~IsRaised(criterion_result)
           /\ criterion_result.criteria = criterion
           /\ criterion_result.status =
                IF criterion_result.score >= minimum_thresholds[criterion]
                THEN PASSED ELSE FAILED

\* C15: every ValidationResult produced has 0 <= score <= 1, also for specs
\* with more than 10 API requirements, more than 5 external dependencies or
\* an effort estimate above 100, and for candidates matching every keyword.
C15_ScoreInUnitInterval ==
    (spc = "validated" /\ ~IsRaised(criterion_result))
        => (0 <= criterion_result.score /\ criterion_result.score <= Scale)

\* C16: text similarity is symmetric, similarity(a, b) = similarity(b, a),
\* for the implementations of the validation engine, the capability mapper
\* and the generator.
C16_SimilaritySymmetric ==
    spc = "compared"
        => /\ similarity.engine = reversed.engine
           /\ similarity.mapper = reversed.mapper
           /\ similarity.generator = reversed.generator

\* the case-insensitive whitespace-token set of a text
Tokens(text) == Split(Lower(text))

\* two texts with different token sets sharing a token were compared
C16_Witness ==
    /\ spc = "compared"
    /\ Tokens(text_a) # Tokens(text_b)
    /\ ~(Tokens(text_a) \subseteq Tokens(text_b))
    /\ ~(Tokens(text_b) \subseteq Tokens(text_a))
    /\ similarity.engine.num > 0
    /\ similarity.generator.num > 0

JaccardOfTokens(r) ==
    /\ r.den > 0
    /\ 0 <= r.num /\ r.num <= r.den
    /\ (r.num = r.den) <=> (Tokens(text_a) = Tokens(text_b) /\ Tokens(text_a) # {})
    /\ (Tokens(text_a) = {} \/ Tokens(text_b) = {}) => r.num = 0
    /\ (Tokens(text_a) # {} /\ Tokens(text_b) # {})
          => r.num * Cardinality(Tokens(text_a) \cup Tokens(text_b))
               = r.den * Cardinality(Tokens(text_a) \cap Tokens(text_b))

\* C17: the similarity of the engine and of the mapper is the Jaccard index
\* of the two case-insensitive whitespace-token sets: within [0, 1], exactly
\* 1 iff the token sets are identical and non-empty, 0 when either text has
\* no token.
C17_SimilarityIsJaccard ==
    spc = "compared"
        => JaccardOfTokens(similarity.engine) /\ JaccardOfTokens(similarity.mapper)

\* two different texts with the same tokens were compared, with similarity 1
C17_Witness ==
    /\ spc = "compared"
    /\ text_a # text_b
    /\ Lower(text_a) # Lower(text_b)
    /\ similarity.mapper.num = similarity.mapper.den
    /\ similarity.engine.num = similarity.engine.den

-----------------------------------------------------------------------------
(* Properties of the generator *)

GenerationOver == gpc \in { "returned", "raised" }

\* C18: the per-category targets of _calculate_category_distribution sum to
\* target_count, and a generate_validated_suggestions(target_count) call in
\* which real-time validation rejected no suggestion returns exactly
\* target_count suggestions, for every target_count >= 1.
C18_ExactTargetWhenAllAccepted ==
    /\ (gpc = "generating" \/ GenerationOver) => SumOf(category_targets) = target_count
    /\ (GenerationOver /\ rejections = 0)
          => (gpc = "returned" /\ Len(generated_suggestions) = target_count)

\* the suggestions of the list for which some existing function is similar
SimilarSuggestions ==
    { n \in DOMAIN checked_suggestions :
        \E m \in DOMAIN checked_existing :
            SimilarToExisting(checked_suggestions[n], checked_existing[m]) }

\* C19: zero-duplicates gate. check_duplicates_against_existing returns the
\* number of suggestions for which some existing function has name word-set
\* similarity > 0.8 or description similarity > 0.7, each suggestion counted
\* once, so that 0 <= count <= number of suggestions, for the suggestions
\* and existing functions its callers pass.
C19_CountsSimilarSuggestions ==
    gpc = "checked"
        => /\ ~IsRaised(duplicate_result)
           /\ duplicate_result.returned = Cardinality(SimilarSuggestions)
           /\ 0 <= duplicate_result.returned
           /\ duplicate_result.returned <= Len(checked_suggestions)

\* ---- C20 ----------------------------------------------------------------
\* C20: a pipeline run enters the phases research, capability mapping,
\* generation, specification, validation, quality assurance in that order, each
\* one only after every earlier phase returned and passed its quality gate, and
\* a run whose phases so far all returned and passed their gates goes on to
\* the next phase; research completeness below the configured threshold aborts
\* the run with CriticalFrameworkError before any later phase.
IsPrefixOf(s, t) == Len(s) <= Len(t) /\ s = SubSeq(t, 1, Len(s))

Started(phase) == \E n \in DOMAIN phases_started : phases_started[n] = phase

ResearchPassed ==
    /\ research_results # NoData
    /\ GateScore(research_results) >= research_completeness_threshold
    /\ "research_completeness" \in DOMAIN quality_gates_passed
    /\ quality_gates_passed["research_completeness"]

\* the mapping returned with the completeness its gate asks for (0.9)
MappingReturned ==
    /\ capability_data # NoData
    /\ capability_data.mapping_completeness >= (9 * Scale) \div 10

C20_PhasesInOrder == IsPrefixOf(phases_started, PipelinePhases)

C20_PhaseOnlyBehindPassedGate == Started("capability_mapping") => ResearchPassed

C20_LowResearchAbortsFirst ==
    (ppc = "aborted" /\ pipeline_error.cause = "CriticalFrameworkError")
        => phases_started = << "research" >>

C20_RunsThePhases ==
    (ppc = "aborted" /\ ResearchPassed /\ MappingReturned) => Started("generation")

C20_PipelineRunsPhasesInOrder ==
    /\ C20_PhasesInOrder
    /\ C20_PhaseOnlyBehindPassedGate
    /\ C20_LowResearchAbortsFirst
    /\ C20_RunsThePhases

-----------------------------------------------------------------------------
(* Properties of the criterion validators on single candidates *)

\* the similarity _validate_duplicate_check computes between a candidate and
\* a function: the mean of name and description similarity
SimilarityTo(suggestion, function) ==
    (ToScore(CalculateTextSimilarity(Lower(Get(suggestion, "name", "")),
                                     Lower(function.name)))
      + ToScore(CalculateTextSimilarity(Lower(Get(suggestion, "description", "")),
                                        Lower(function.description)))) \div 2

\* the entities known at the time of the check: the functions the mapper
\* maps, and the functions assigned to the engine
KnownEntities ==
    FunctionPool \cup { assigned_db[n] : n \in DOMAIN assigned_db }

NoOverlap(suggestion) ==
    \A function \in KnownEntities :
        /\ Tokens(Get(suggestion, "name", "")) \cap Tokens(function.name) = {}
        /\ Tokens(Get(suggestion, "description", "")) \cap Tokens(function.description) = {}

CleanCase ==
    /\ "name" \in DOMAIN candidate
    /\ NoOverlap(candidate)
    /\ Len(Get(candidate_spec, "api_requirements", <<>>)) <= 3
    /\ Get(candidate_spec, "complexity", "") = "low"

\* ---- C21 ----------------------------------------------------------------
\* C21: a candidate with no name or description overlap with any known
\* entity, whose spec names at most 3 API requirements and has complexity
\* low, obtains status PASSED on each of the 7 criteria.
C21_CleanCandidatePassesAll ==
    (spc = "validated" /\ CleanCase)
        => /\ ~IsRaised(criterion_result)
           /\ criterion_result.status = PASSED

\* ---- C24 ----------------------------------------------------------------
\* C24: duplicate_check is zero-tolerance. Its score is 1 - (the maximum
\* similarity of the candidate to any known entity), and the result is PASSED
\* exactly when the similarity to every known entity is 0: one known entity
\* with nonzero similarity makes the result FAILED.
MaxSimilarityToKnown ==
    CHOOSE m \in { SimilarityTo(candidate, f) : f \in KnownEntities } :
        \A f \in KnownEntities : SimilarityTo(candidate, f) <= m

C24_DuplicateCheckZeroTolerance ==
    Validated("duplicate_check")
        => /\ ~IsRaised(criterion_result)
           /\ criterion_result.score = Scale - MaxSimilarityToKnown
           /\ criterion_result.status = PASSED
                <=> \A f \in KnownEntities : SimilarityTo(candidate, f) = 0
           /\ criterion_result.status \in { PASSED, FAILED }

\* ---- C25 ----------------------------------------------------------------
\* C25: evaluating any of the 7 criteria on a candidate and spec with
\* missing fields (empty dicts included) never raises: it returns a
\* ValidationResult with a score.
CandidateFields == { "name", "description", "category" }
SpecFields ==
    { "api_requirements", "external_dependencies", "revit_compatibility_score",
      "effort_estimate" }

MissingFields ==
    \/ CandidateFields \ DOMAIN candidate # {}
    \/ SpecFields \ DOMAIN candidate_spec # {}

C25_MissingFieldsNeverRaise ==
    (spc = "validated" /\ MissingFields)
        => /\ ~IsRaised(criterion_result)
           /\ criterion_result.score \in Int

\* ---- C27 ----------------------------------------------------------------
\* C27: a ValidationResult has non-empty blocking_issues only if its status
\* is FAILED; a PASSED result has an empty blocking_issues list.
C27_BlockingOnlyWhenFailed ==
    (spc = "validated" /\ ~IsRaised(criterion_result))
        => /\ criterion_result.blocking_issues # <<>> => criterion_result.status = FAILED
           /\ criterion_result.status = PASSED => criterion_result.blocking_issues = <<>>

\* a duplicate check against assigned functions reported a duplicate
C27_Witness ==
    /\ Validated("duplicate_check")
    /\ assigned_db # <<>>
    /\ criterion_result.blocking_issues # <<>>
    /\ criterion_result.status = FAILED

-----------------------------------------------------------------------------
(* Properties of the coverage loop: order of the results *)

\* ---- C22 ----------------------------------------------------------------
\* C22: validation_results are appended in the order of the input candidate
\* list and, within a candidate, in the order technical_feasibility,
\* duplicate_check, aec_value, implementation_complexity, api_compatibility,
\* innovation_score, resource_requirements; at every point during a batch the
\* results recorded for it are a prefix of that sequence.
CoverageOrder ==
    << "technical_feasibility", "duplicate_check", "aec_value",
       "implementation_complexity", "api_compatibility", "innovation_score",
       "resource_requirements" >>

CandidateOf(n) == ((n - 1) \div Len(CoverageOrder)) + 1
CriterionOf(n) == CoverageOrder[((n - 1) % Len(CoverageOrder)) + 1]

\* what the n-th evaluation of the running batch returns
EvaluationOf(n) ==
    CallValidateSingleCriterion(suggestions[CandidateOf(n)],
                                implementation_specs[CandidateOf(n)], CriterionOf(n),
                                batch_ids[CandidateOf(n)], patched, stub_result)

InBatch == pc \in { "phase1", "phase2" }

-----------------------------------------------------------------------------
(* Properties of the duplicate-detection database: keys per entity *)

\* the keys of the lookup table whose value is the n-th entity
KeysOf(n) ==
    { duplicate_detection_db[i].key :
        i \in { j \in DOMAIN duplicate_detection_db : duplicate_detection_db[j].func = n } }

\* the keys an entity generates
GeneratedKeys(function) ==
    { Lower(function.name), Lower(function.module_path),
      Lower(Replace(function.name, "_", "")), Lower(Replace(function.name, "_", " ")) }

GeneratedEarlier(n) ==
    UNION { GeneratedKeys(existing_functions[m]) : m \in 1..(n - 1) }

-----------------------------------------------------------------------------
(* Properties of check_for_duplicates: the empty candidate name *)

\* position in the lookup table of the first entry whose entity has the name
FirstEntryNamed(name) ==
    FirstOf({ n \in DOMAIN duplicate_detection_db :
                existing_functions[duplicate_detection_db[n].func].name = name })

EmptyNameChecked ==
    /\ mpc = "checked"
    /\ suggestion_name = ""
    /\ duplicate_detection_db # <<>>

\* ---- C30 ----------------------------------------------------------------
\* C30: check_for_duplicates with an empty candidate name, on a non-empty
\* lookup table, reports every keyed entity as a duplicate (the empty name is
\* a substring of every key): the result is the list of the distinct-named
\* entities of the table, in key insertion order.
C30_EmptyNameMatchesEveryKey ==
    EmptyNameChecked
        => /\ \A n \in DOMAIN duplicate_detection_db :
                \E i \in DOMAIN unique_duplicates :
                   ReturnedName(i) = existing_functions[duplicate_detection_db[n].func].name
           /\ \A i, j \in DOMAIN unique_duplicates :
                ReturnedName(i) = ReturnedName(j) => i = j
           /\ \A i \in DOMAIN unique_duplicates :
                unique_duplicates[i] =
                    duplicate_detection_db[FirstEntryNamed(ReturnedName(i))].func
           /\ \A i, j \in DOMAIN unique_duplicates :
                i < j => FirstEntryNamed(ReturnedName(i)) < FirstEntryNamed(ReturnedName(j))

\* an empty name was checked against a table holding two names, one of them
\* under several keys, with a description similar to no entity's
C30_Witness ==
    /\ EmptyNameChecked
    /\ Len(unique_duplicates) = 2
    /\ Len(duplicate_detection_db) > 2
    /\ \A n \in DOMAIN existing_functions :
         ~AboveDescriptionCutoff(
             MapperTextSimilarity(Lower(suggestion_description),
                                  Lower(existing_functions[n].description)))

-----------------------------------------------------------------------------
(* Properties of the generator: duplicate_tracker and termination *)

\* lowercase name with spaces removed
NormalizedKey(suggestion) == Replace(Lower(suggestion.name), " ", "")

Accepted == BagToSet(accepted_suggestions)

\* ---- C28 ----------------------------------------------------------------
\* C28: within one ButtonGenerator, after any sequence of
\* _validate_suggestion_real_time and generate_validated_suggestions calls,
\* duplicate_tracker is the set of the normalized keys of the suggestions
\* accepted so far, and no two accepted suggestions have the same key.
C28_TrackerIsAcceptedKeys ==
    /\ duplicate_tracker = { NormalizedKey(suggestion) : suggestion \in Accepted }
    /\ \A suggestion \in Accepted : CopiesIn(suggestion, accepted_suggestions) = 1
    /\ \A s, t \in Accepted : NormalizedKey(s) = NormalizedKey(t) => s = t

\* a generation returned after a rejection, on a generator that has accepted
\* two suggestions
C28_Witness ==
    /\ gpc = "returned"
    /\ rejections > 0
    /\ Cardinality(duplicate_tracker) = 2
    /\ Len(generated_suggestions) < BagCardinality(accepted_suggestions)

\* ---- C29 ----------------------------------------------------------------
\* C29: generate_validated_suggestions always terminates, also when
\* real-time validation rejects every generated suggestion: each category
\* loop stops after at most 3 x target_count attempts, and a run that
\* collected fewer than 90% of target_count suggestions ends by raising
\* GenerationError.
CollectedBelowTolerance == 10 * Len(generated) < 9 * target_count

C29_GenerationTerminates ==
    /\ [](gpc = "generating" => category_attempts <= 3 * target_count)
    /\ []((GenerationOver /\ CollectedBelowTolerance)
            => (gpc = "raised" /\ generation_error.type = "GenerationError"))
    /\ (gpc = "generating") ~> GenerationOver

\* a run in which the validation rejected every suggestion has ended: every
\* category with a target ran 3 x target_count attempts
C29_Witness ==
    /\ gpc = "raised"
    /\ single_patched
    /\ ~validate_patched
    /\ target_count >= 2
    /\ generated = <<>>
    /\ rejections = 3 * target_count
                      * Cardinality({ n \in DOMAIN category_targets : category_targets[n] > 0 })

-----------------------------------------------------------------------------
(* The order of the database build and the duplicate queries *)

\* ---- C26 ----------------------------------------------------------------
\* C26: every check_for_duplicates query runs only after the
\* duplicate-detection database build has completed over all mapped
\* entities: the state a query has run in has a database that was built, and
\* that is the database of the whole existing_functions list.
C26_QueryOnlyAfterBuild ==
    mpc = "checked"
        => /\ database_built
           /\ duplicate_detection_db = BuildDuplicateDetectionDatabase(existing_functions)

=============================================================================
